---- MODULE Spec2Model ----
(***************************************************************************)
(* Model of sea-orm's `#[derive(FromQueryResult)]`                         *)
(* (sea-orm-macros/src/derives/from_query_result.rs): the field parser     *)
(* `DeriveFromQueryResult::new`, and the two functions the macro generates *)
(* for a struct, `from_query_result_nullable` and `from_query_result`,     *)
(* executed step by step on a row.                                         *)
(***************************************************************************)
EXTENDS Naturals, Sequences, FiniteSets, TLC

\* pc: "idle" before the call, "run" inside from_query_result_nullable,
\*   "strict" back in from_query_result, "done" after the return
\* entry: the generated function the caller invoked ("strict" is
\*   from_query_result, "nullable" is from_query_result_nullable)
\* top, row, prefix: the struct, the row and the `pre` of the top-level call
\* stack: the activations of from_query_result_nullable, outermost first
\* log: the row.try_get_nullable lookups made so far, in order
\* returns: one record per finished activation, in order of return
\* nullableResult: what the top-level from_query_result_nullable returned
\* result: what the entry point returned
VARIABLES pc, entry, top, row, prefix, stack, log, returns, nullableResult, result

vars == <<pc, entry, top, row, prefix, stack, log, returns, nullableResult, result>>

(***************************************************************************)
(* Bounds                                                                  *)
(***************************************************************************)
\* largest number of columns a row holds (the others are absent)
MaxCols == 3

(***************************************************************************)
(* Inputs: struct declarations handed to the derive macro                  *)
(***************************************************************************)
Path(k) == [key |-> k, kv |-> FALSE, val |-> ""]
NameValue(k, v) == [key |-> k, kv |-> TRUE, val |-> v]
SeaOrm(list) == [path |-> "sea_orm", list |-> list]
Serde(list) == [path |-> "serde", list |-> list]
Plain == [optional |-> FALSE, inner |-> ""]
Ty(s) == [optional |-> FALSE, inner |-> s]
OptionTy(s) == [optional |-> TRUE, inner |-> s]
Field(name, attrs, ty) == [ident |-> [raw |-> FALSE, name |-> name], attrs |-> attrs, ty |-> ty]
RawField(name, attrs, ty) == [ident |-> [raw |-> TRUE, name |-> name], attrs |-> attrs, ty |-> ty]

\* struct name -> its named fields, in declaration order
Decls ==
  [ Bakery |-> << Field("id", <<>>, Plain),
                  Field("title", << SeaOrm(<< NameValue("from_alias", "Name") >>) >>, Plain) >>,
    Cake |-> << Field("id", <<>>, Plain),
                Field("name", <<>>, Plain),
                Field("bakery", << SeaOrm(<< Path("nested") >>) >>, OptionTy("Bakery")),
                Field("ignore", << SeaOrm(<< Path("skip") >>) >>, Plain) >>,
    BakeryDetails |-> << Field("basics", << SeaOrm(<< Path("nested") >>) >>, Ty("Bakery")),
                         RawField("name", << Serde(<< Path("skip") >>) >>, Plain) >>,
    Chain |-> << Field("details", << SeaOrm(<< Path("nested") >>) >>, OptionTy("BakeryDetails")) >>,
    Shop |-> << Field("name", <<>>, Plain),
                Field("bakery", << SeaOrm(<< Path("nested") >>) >>, OptionTy("Bakery")) >>,
    Ignore |-> << Field("title", << SeaOrm(<< Path("skip") >>) >>, Plain) >>,
    Holder |-> << Field("name", <<>>, Plain),
                  Field("extra", << SeaOrm(<< Path("nested") >>) >>, OptionTy("Ignore")) >>,
    Factory |-> << Field("id", << SeaOrm(<< NameValue("from_col", "id"),
                                            NameValue("from_alias", "id") >>) >>, Plain),
                   Field("title", << SeaOrm(<< NameValue("from_alias", "Name"),
                                               NameValue("from_col", "name") >>) >>, Plain) >> ]

StructNames == DOMAIN Decls

Prefixes == {"", "basics_"}
BaseColumns == {"id", "name", "Name", "title"}
Columns == {p \o c : p \in Prefixes, c \in BaseColumns}
Cells == {"absent", "null", "err", "val"}
Rows == {r \in [Columns -> Cells] : Cardinality({c \in Columns : r[c] # "absent"}) <= MaxCols}

(***************************************************************************)
(* Values and outcomes                                                     *)
(***************************************************************************)
None == [some |-> FALSE]
Some(v) == [some |-> TRUE, v |-> v]

Ok(v) == [kind |-> "Ok", v |-> v]
\* Err(TryGetError::Null(col))
NullErr(col) == [kind |-> "Null", col |-> col]
\* Err(TryGetError::DbErr(e))
DbErr(e) == [kind |-> "DbErr", e |-> e]
\* Result<Self, DbErr>::Err(e)
Err(e) == [kind |-> "Err", e |-> e]
NoResult == [kind |-> "none"]

\* the datum stored under a column is named after the column
Decoded(col) == [t |-> "val", of |-> col]
DefaultValue == [t |-> "default"]
StructValue(st, fs) == [t |-> "struct", st |-> st, fields |-> fs]

(***************************************************************************)
(* DeriveFromQueryResult::new: the field parser                            *)
(***************************************************************************)
\* GetMeta::exists(k): the meta is the bare path k
Exists(meta, k) == ~meta.kv /\ meta.key = k

\* GetMeta::get_as_kv(k): the meta is `k = "literal"`
GetAsKv(meta, k) == IF meta.kv /\ meta.key = k THEN Some(meta.val) ELSE None

\* body of `for meta in list.iter()`: typ is set by skip / nested, alias is
\* assigned from every meta
MetaStep(acc, meta) ==
  [ typ |-> IF Exists(meta, "skip") THEN "Skip"
            ELSE IF Exists(meta, "nested") THEN "Nested"
            ELSE acc.typ,
    alias |-> GetAsKv(meta, "from_alias") ]

RECURSIVE FoldMetas(_, _, _)
FoldMetas(acc, list, i) ==
  IF i > Len(list) THEN acc ELSE FoldMetas(MetaStep(acc, list[i]), list, i + 1)

\* body of `for attr in parsed_field.attrs.iter()`: other attributes are skipped
AttrStep(acc, attr) ==
  IF attr.path # "sea_orm" THEN acc ELSE FoldMetas(acc, attr.list, 1)

RECURSIVE FoldAttrs(_, _, _)
FoldAttrs(acc, attrs, i) ==
  IF i > Len(attrs) THEN acc ELSE FoldAttrs(AttrStep(acc, attrs[i]), attrs, i + 1)

\* IdentExt::unraw followed by to_string
Unraw(ident) == ident.name

\* one FromQueryResultItem { typ, ident, alias }
ParseField(f) ==
  LET acc == FoldAttrs([typ |-> "Flat", alias |-> None], f.attrs, 1)
  IN [typ |-> acc.typ, ident |-> f.ident, alias |-> acc.alias]

\* DeriveFromQueryResult::new(input).fields
New(st) == [i \in 1..Len(Decls[st]) |-> ParseField(Decls[st][i])]

(***************************************************************************)
(* Pieces of the generated code                                            *)
(***************************************************************************)
\* ItemType::Flat: let name = alias.unwrap_or_else(|| ident.unraw().to_string())
FlatName(item) == IF item.alias.some THEN item.alias.v ELSE Unraw(item.ident)

\* the column a (pre, col) pair addresses: format!("{pre}{col}")
ColumnIndex(pre, col) == pre \o col

\* row.try_get_nullable(pre, col) for a non-optional field type
TryGetNullable(r, pre, col) ==
  LET c == ColumnIndex(pre, col)
      cell == IF c \in DOMAIN r THEN r[c] ELSE "absent"
  IN CASE cell = "val" -> Ok(Decoded(c))
       [] cell = "err" -> DbErr([src |-> "decode", col |-> c])
       [] OTHER -> NullErr(c)

\* variant: the check returns on a Null error too
FlatEarlyReturnAnyErr(v) == v.kind # "Ok"

\* variant: the check never returns early
FlatNoEarlyReturn(v) == FALSE

\* ItemType::Flat check: Err(v @ TryGetError::DbErr(_)) => return Err(v)
FlatEarlyReturn(v) == v.kind = "DbErr"

\* variant: a Skip field takes the value the row holds under its name
SkipOutcomeLookup(r, pre, item) ==
  LET v == TryGetNullable(r, pre, FlatName(item))
  IN IF v.kind = "Ok" THEN v ELSE Ok(DefaultValue)

\* ItemType::Skip check: let ident = Default::default()
SkipOutcome(r, pre, item) == Ok(DefaultValue)

\* ItemType::Nested check: the prefix handed to the nested type
NestedPrefix(pre, item) == pre

\* variant: the nested check keeps a DbErr bound instead of returning it
NestedNoEarlyReturn(v) == FALSE

\* ItemType::Nested check: Err(v @ TryGetError::DbErr(_)) => return Err(v)
NestedEarlyReturn(v) == v.kind = "DbErr"

\* <Option<T> as FromQueryResult>::from_query_result_nullable
OptionFromQueryResultNullable(r) ==
  CASE r.kind = "Ok" -> Ok(Some(r.v))
    [] r.kind = "Null" -> Ok(None)
    [] OTHER -> r

\* Ok(Self { a: a?, s, b: b?, .. }): the first Err among the Flat and Nested
\* bindings, in declaration order, is returned; a Skip binding is used as is
\* variant: the last Err in declaration order is returned instead of the first
RECURSIVE FirstErrLast(_, _, _)
FirstErrLast(items, vals, i) ==
  IF i > Len(items) THEN NoResult
  ELSE LET later == FirstErrLast(items, vals, i + 1)
       IN IF later.kind # "none" THEN later
          ELSE IF items[i].typ # "Skip" /\ vals[i].kind # "Ok" THEN vals[i]
          ELSE NoResult

RECURSIVE FirstErr(_, _, _)
FirstErr(items, vals, i) ==
  IF i > Len(items) THEN NoResult
  ELSE IF items[i].typ # "Skip" /\ vals[i].kind # "Ok" THEN vals[i]
  ELSE FirstErr(items, vals, i + 1)

\* variant: a Null binding is filled with the default instead of returned
TryAssignNullFill(st, vals) ==
  IF \E i \in 1..Len(vals) : vals[i].kind = "DbErr"
  THEN vals[CHOOSE i \in 1..Len(vals) : vals[i].kind = "DbErr"]
  ELSE Ok(StructValue(st, [i \in 1..Len(vals) |->
                             IF vals[i].kind = "Ok" THEN vals[i].v ELSE DefaultValue]))

TryAssign(st, vals) ==
  LET e == FirstErr(New(st), vals, 1)
  IN IF e.kind # "none" THEN e
     ELSE Ok(StructValue(st, [i \in 1..Len(vals) |-> vals[i].v]))

\* impl From<TryGetError> for DbErr
TryGetErrorIntoDbErr(e) ==
  IF e.kind = "DbErr" THEN e.e ELSE [src |-> "null", col |-> e.col]

\* variant: the nullable result is handed on without the conversion of `?`
StrictResultUnconverted(r) == r

\* from_query_result: Ok(Self::from_query_result_nullable(row, pre)?)
StrictResult(r) == IF r.kind = "Ok" THEN Ok(r.v) ELSE Err(TryGetErrorIntoDbErr(r))

(***************************************************************************)
(* Execution of the generated functions                                    *)
(***************************************************************************)
\* one activation of from_query_result_nullable(row, pre) of struct st;
\* opt: it was entered through Option<st>; path: the field indices that lead
\* to it from the top-level struct; idx: the next field to check
Frame(st, pre, opt, path) ==
  [st |-> st, pre |-> pre, opt |-> opt, path |-> path, idx |-> 1, vals |-> <<>>, ret |-> NoResult]

Cur == stack[Len(stack)]
CurItems == New(Cur.st)
Checking == pc = "run" /\ stack # <<>> /\ Cur.ret = NoResult /\ Cur.idx <= Len(CurItems)
SetCur(f) == [stack EXCEPT ![Len(stack)] = f]

Init ==
  /\ pc = "idle"
  /\ entry = "none"
  /\ top = "none"
  /\ row = [c \in Columns |-> "absent"]
  /\ prefix = ""
  /\ stack = <<>>
  /\ log = <<>>
  /\ returns = <<>>
  /\ nullableResult = NoResult
  /\ result = NoResult

\* a caller invokes from_query_result or from_query_result_nullable
Call ==
  /\ pc = "idle"
  /\ \E st \in StructNames, p \in Prefixes, r \in Rows, e \in {"strict", "nullable"} :
       /\ top' = st
       /\ prefix' = p
       /\ row' = r
       /\ entry' = e
       /\ stack' = << Frame(st, p, FALSE, <<>>) >>
  /\ pc' = "run"
  /\ UNCHANGED <<log, returns, nullableResult, result>>

\* TryFromQueryResultCheck, ItemType::Flat
CheckFlat ==
  /\ Checking
  /\ CurItems[Cur.idx].typ = "Flat"
  /\ LET name == FlatName(CurItems[Cur.idx])
         v == TryGetNullable(row, Cur.pre, name)
     IN /\ log' = Append(log, [path |-> Append(Cur.path, Cur.idx), st |-> Cur.st,
                               pre |-> Cur.pre, col |-> ColumnIndex(Cur.pre, name)])
        /\ stack' = IF FlatEarlyReturn(v)
                    THEN SetCur([Cur EXCEPT !.ret = v])
                    ELSE SetCur([Cur EXCEPT !.vals = Append(@, v), !.idx = @ + 1])
  /\ UNCHANGED <<pc, entry, top, row, prefix, returns, nullableResult, result>>

\* TryFromQueryResultCheck, ItemType::Skip
CheckSkip ==
  /\ Checking
  /\ CurItems[Cur.idx].typ = "Skip"
  /\ stack' = SetCur([Cur EXCEPT !.vals = Append(@, SkipOutcome(row, Cur.pre, CurItems[Cur.idx])),
                                 !.idx = @ + 1])
  /\ UNCHANGED <<pc, entry, top, row, prefix, log, returns, nullableResult, result>>

\* TryFromQueryResultCheck, ItemType::Nested: the call into the field's type
CheckNested ==
  /\ Checking
  /\ CurItems[Cur.idx].typ = "Nested"
  /\ LET ty == Decls[Cur.st][Cur.idx].ty
     IN stack' = Append(stack, Frame(ty.inner, NestedPrefix(Cur.pre, CurItems[Cur.idx]),
                                     ty.optional, Append(Cur.path, Cur.idx)))
  /\ UNCHANGED <<pc, entry, top, row, prefix, log, returns, nullableResult, result>>

\* every field is bound: Ok(Self { .. }) with the `?` of TryFromQueryResultAssignment
Assign ==
  /\ pc = "run" /\ stack # <<>> /\ Cur.ret = NoResult
  /\ Cur.idx = Len(CurItems) + 1
  /\ stack' = SetCur([Cur EXCEPT !.ret = TryAssign(Cur.st, Cur.vals)])
  /\ UNCHANGED <<pc, entry, top, row, prefix, log, returns, nullableResult, result>>

\* what the caller of the activation receives
Delivered(f) == IF f.opt THEN OptionFromQueryResultNullable(f.ret) ELSE f.ret

Returned(f) ==
  [path |-> f.path, st |-> f.st, pre |-> f.pre, opt |-> f.opt, vals |-> f.vals,
   raw |-> f.ret, out |-> Delivered(f)]

\* TryFromQueryResultCheck, ItemType::Nested: the match on the nested result
ReturnNested ==
  /\ pc = "run" /\ Len(stack) > 1 /\ Cur.ret # NoResult
  /\ LET v == Delivered(Cur)
         parent == stack[Len(stack) - 1]
         rest == SubSeq(stack, 1, Len(stack) - 2)
     IN stack' = IF NestedEarlyReturn(v)
                 THEN Append(rest, [parent EXCEPT !.ret = v])
                 ELSE Append(rest, [parent EXCEPT !.vals = Append(@, v), !.idx = @ + 1])
  /\ returns' = Append(returns, Returned(Cur))
  /\ UNCHANGED <<pc, entry, top, row, prefix, log, nullableResult, result>>

\* the top-level from_query_result_nullable returns
ReturnNullable ==
  /\ pc = "run" /\ Len(stack) = 1 /\ Cur.ret # NoResult
  /\ nullableResult' = Cur.ret
  /\ returns' = Append(returns, Returned(Cur))
  /\ stack' = <<>>
  /\ IF entry = "strict"
     THEN pc' = "strict" /\ UNCHANGED result
     ELSE pc' = "done" /\ result' = Cur.ret
  /\ UNCHANGED <<entry, top, row, prefix, log>>

\* from_query_result: Ok(Self::from_query_result_nullable(row, pre)?)
FromQueryResult ==
  /\ pc = "strict"
  /\ result' = StrictResult(nullableResult)
  /\ pc' = "done"
  /\ UNCHANGED <<entry, top, row, prefix, stack, log, returns, nullableResult>>

Next ==
  \/ Call
  \/ CheckFlat
  \/ CheckSkip
  \/ CheckNested
  \/ Assign
  \/ ReturnNested
  \/ ReturnNullable
  \/ FromQueryResult

Spec == Init /\ [][Next]_vars

(***************************************************************************)
(* Vocabulary of the properties: what the row holds for a field            *)
(***************************************************************************)
CellOf(c) == IF c \in DOMAIN row THEN row[c] ELSE "absent"
Fields(st) == 1..Len(Decls[st])
TypOf(st, i) == New(st)[i].typ
FlatFields(st) == {i \in Fields(st) : TypOf(st, i) = "Flat"}
NonSkipFields(st) == {i \in Fields(st) : TypOf(st, i) # "Skip"}
FlatColumn(st, pre, i) == ColumnIndex(pre, FlatName(New(st)[i]))
FlatCell(st, pre, i) == CellOf(FlatColumn(st, pre, i))
IsAbsent(cell) == cell \in {"absent", "null"}
Calls == 1..Len(returns)
Finished == pc = "done"

\* every non-Skip field is Direct
AllDirect(st) == NonSkipFields(st) = FlatFields(st)
UniformlyAbsent(st, pre) == \A i \in FlatFields(st) : IsAbsent(FlatCell(st, pre, i))

\* C1 as stated: a structure whose non-Skip fields are all Direct, and whose
\* Direct columns are all absent or NULL, returns Null from
\* from_query_result_nullable.
C1_UniformAbsenceCollapse_AsStated ==
  \A k \in Calls :
    (AllDirect(returns[k].st) /\ UniformlyAbsent(returns[k].st, returns[k].pre))
      => returns[k].raw.kind = "Null"

\* C1 amended: a structure with at least one Direct field, whose non-Skip
\* fields are all Direct and whose Direct columns are all absent or NULL,
\* returns Null from from_query_result_nullable (the Null of its first Direct
\* field), never DbErr and never an instance.
C1_UniformAbsenceCollapse ==
  \A k \in Calls :
    LET e == returns[k] IN
    (AllDirect(e.st) /\ FlatFields(e.st) # {} /\ UniformlyAbsent(e.st, e.pre))
      => /\ e.raw.kind = "Null"
         /\ \E i \in FlatFields(e.st) :
              /\ e.raw.col = FlatColumn(e.st, e.pre, i)
              /\ \A j \in FlatFields(e.st) : i <= j

C1_Witness ==
  \E k \in Calls :
    LET e == returns[k] IN
    /\ AllDirect(e.st) /\ Cardinality(FlatFields(e.st)) = 2
    /\ UniformlyAbsent(e.st, e.pre)
    /\ \E i \in FlatFields(e.st) : FlatCell(e.st, e.pre, i) = "null"
    /\ \E i \in FlatFields(e.st) : FlatCell(e.st, e.pre, i) = "absent"
    /\ e.raw.kind = "Null"

\* a structure of exactly two Direct fields
TwoDirect(st) == Len(Decls[st]) = 2 /\ FlatFields(st) = {1, 2}
PartialAbsence(st, pre, a, b) ==
  /\ TwoDirect(st) /\ {a, b} = {1, 2}
  /\ FlatCell(st, pre, a) = "val"
  /\ IsAbsent(FlatCell(st, pre, b))

ChildCalls(e, n) == {k \in Calls : returns[k].path = Append(e.path, n)}

\* Direct fields, one optional Nested field n, and Skip fields
OuterShape(st, n) ==
  /\ FlatFields(st) # {}
  /\ n \in Fields(st) /\ TypOf(st, n) = "Nested" /\ Decls[st][n].ty.optional
  /\ NonSkipFields(st) = FlatFields(st) \cup {n}

\* every non-Skip field of the nested activation c was bound to a Null error
ChildFieldsAbsent(c) ==
  /\ Len(c.vals) = Len(Decls[c.st])
  /\ \A i \in NonSkipFields(c.st) : c.vals[i].kind = "Null"

\* the instance with every Direct field decoded and the Nested field n None
ExpectedOuter(st, pre, n) ==
  StructValue(st, [i \in Fields(st) |->
    IF i = n THEN None
    ELSE IF TypOf(st, i) = "Flat" THEN Decoded(FlatColumn(st, pre, i))
    ELSE DefaultValue])

AbsorbsChild(e, n) ==
  /\ e.raw = Ok(ExpectedOuter(e.st, e.pre, n))
  /\ (e.path = <<>> /\ Finished) => result = Ok(ExpectedOuter(e.st, e.pre, n))

\* C3 as stated: an outer structure with Direct fields and an Option<Child>
\* Nested field, every outer Direct field present and every non-Skip field of
\* Child absent or NULL: both entry points succeed, with the Nested field
\* None and the Direct fields decoded.
C3_NestedAbsenceAbsorption_AsStated ==
  \A k \in Calls : \A n \in Fields(returns[k].st) :
    LET e == returns[k] IN
    ( /\ OuterShape(e.st, n)
      /\ \A i \in FlatFields(e.st) : FlatCell(e.st, e.pre, i) = "val"
      /\ \E c \in ChildCalls(e, n) : ChildFieldsAbsent(returns[c]) )
      => AbsorbsChild(e, n)

\* C3 amended: the same, for a Child that has at least one non-Skip field.
C3_NestedAbsenceAbsorption ==
  \A k \in Calls : \A n \in Fields(returns[k].st) :
    LET e == returns[k] IN
    ( /\ OuterShape(e.st, n)
      /\ \A i \in FlatFields(e.st) : FlatCell(e.st, e.pre, i) = "val"
      /\ \E c \in ChildCalls(e, n) :
           ChildFieldsAbsent(returns[c]) /\ NonSkipFields(returns[c].st) # {} )
      => AbsorbsChild(e, n)

C3_Witness ==
  \E k \in Calls : \E n \in Fields(returns[k].st) :
    LET e == returns[k] IN
    /\ OuterShape(e.st, n)
    /\ \A i \in FlatFields(e.st) : FlatCell(e.st, e.pre, i) = "val"
    /\ \E c \in ChildCalls(e, n) :
         /\ ChildFieldsAbsent(returns[c])
         /\ Cardinality(NonSkipFields(returns[c].st)) = 2
    /\ e.path = <<>> /\ Finished /\ entry = "strict"
    /\ result = Ok(ExpectedOuter(e.st, e.pre, n))

(***************************************************************************)
(* What a field yields, read off the row                                   *)
(***************************************************************************)
RECURSIVE FieldErr(_, _, _), HasErr(_, _), FieldNull(_, _, _), StructNull(_, _)
\* field i of st yields DbErr: its column fails to decode, or a field of its
\* nested structure does
FieldErr(st, pre, i) ==
  CASE TypOf(st, i) = "Flat" -> FlatCell(st, pre, i) = "err"
    [] TypOf(st, i) = "Nested" ->
         HasErr(Decls[st][i].ty.inner, NestedPrefix(pre, New(st)[i]))
    [] OTHER -> FALSE
HasErr(st, pre) == \E i \in Fields(st) : FieldErr(st, pre, i)
\* field i of st yields Null: its column is absent or NULL, or its nested
\* structure (not an Option) yields Null
FieldNull(st, pre, i) ==
  CASE TypOf(st, i) = "Flat" -> IsAbsent(FlatCell(st, pre, i))
    [] TypOf(st, i) = "Nested" ->
         /\ ~Decls[st][i].ty.optional
         /\ StructNull(Decls[st][i].ty.inner, NestedPrefix(pre, New(st)[i]))
    [] OTHER -> FALSE
StructNull(st, pre) == ~HasErr(st, pre) /\ \E i \in Fields(st) : FieldNull(st, pre, i)

\* C4: when one field of a structure yields DbErr and another yields Null,
\* from_query_result_nullable returns DbErr, whichever is declared first.
C4_DataErrorPrecedence ==
  \A k \in Calls : \A i, j \in Fields(returns[k].st) :
    LET e == returns[k] IN
    (i # j /\ FieldErr(e.st, e.pre, i) /\ FieldNull(e.st, e.pre, j))
      => e.raw.kind = "DbErr"

\* the Null field is declared before the failing one
C4_Witness ==
  \E k \in Calls : \E i, j \in Fields(returns[k].st) :
    LET e == returns[k] IN
    /\ j < i /\ FieldErr(e.st, e.pre, i) /\ FieldNull(e.st, e.pre, j)
    /\ TypOf(e.st, j) = "Nested"
    /\ e.raw.kind = "DbErr"

\* C5: from_query_result returns what from_query_result_nullable returned on
\* the same arguments, except that a Null error becomes a DbErr: Ok keeps
\* its value, a DbErr is handed on unchanged, and Null is never returned.
C5_StrictPromotion ==
  (Finished /\ entry = "strict") =>
    /\ result.kind \in {"Ok", "Err"}
    /\ nullableResult.kind = "Ok" => result = nullableResult
    /\ nullableResult.kind = "DbErr" => result = Err(nullableResult.e)
    /\ nullableResult.kind = "Null" => (result.kind = "Err" /\ result.e.src = "null")

C5_Witness ==
  /\ Finished /\ entry = "strict"
  /\ nullableResult.kind = "Null"
  /\ result.kind = "Err"

IsPrefix(p, q) == Len(p) <= Len(q) /\ SubSeq(q, 1, Len(p)) = p

EnteredThrough(k) == Decls[stack[k - 1].st][stack[k - 1].idx]

\* C7: the nested structure of a Nested field f is extracted with the prefix
\* p + f + "_", so its Direct field g is looked up under p + f + "_" + g.
C7_NestedPrefixExtension ==
  /\ \A k \in 2..Len(stack) :
       stack[k].pre = stack[k - 1].pre \o Unraw(EnteredThrough(k).ident) \o "_"
  /\ \A n \in 1..Len(log) :
       Len(log[n].path) = 2 =>
         log[n].col = prefix \o Unraw(Decls[top][log[n].path[1]].ident) \o "_"
                             \o FlatName(New(log[n].st)[log[n].path[2]])

\* the from_alias value a field declaration carries (the last one written)
RECURSIVE AliasInMetas(_, _, _), DeclaredAlias(_, _, _)
AliasInMetas(list, i, found) ==
  IF i > Len(list) THEN found
  ELSE AliasInMetas(list, i + 1,
         IF list[i].kv /\ list[i].key = "from_alias" THEN Some(list[i].val) ELSE found)
DeclaredAlias(attrs, i, found) ==
  IF i > Len(attrs) THEN found
  ELSE DeclaredAlias(attrs, i + 1,
         IF attrs[i].path = "sea_orm" THEN AliasInMetas(attrs[i].list, 1, found) ELSE found)

DeclaredColumn(f) ==
  LET a == DeclaredAlias(f.attrs, 1, None)
  IN IF a.some THEN a.v ELSE f.ident.name

\* C8: a Direct field is looked up under p + c, c being the from_alias name
\* of its declaration whatever else the declaration carries, and the unraw
\* field name when it declares none.
C8_AliasPrefixAddressing ==
  \A n \in 1..Len(log) :
    LET l == log[n]
        f == Decls[l.st][l.path[Len(l.path)]]
    IN l.col = l.pre \o DeclaredColumn(f)

\* what the non-Skip fields of a structure make it return
ExpectedKind(st, pre) ==
  IF HasErr(st, pre) THEN "DbErr" ELSE IF StructNull(st, pre) THEN "Null" ELSE "Ok"

\* C9: a Skip field is not looked up, is bound to the default value whatever
\* the row holds, and the outcome of the structure (Ok, Null or DbErr) is the
\* one its other fields give.
C9_SkipNeverFails ==
  /\ \A n \in 1..Len(log) : TypOf(log[n].st, log[n].path[Len(log[n].path)]) # "Skip"
  /\ \A k \in Calls :
       LET e == returns[k] IN
       /\ \A i \in 1..Len(e.vals) : TypOf(e.st, i) = "Skip" => e.vals[i] = Ok(DefaultValue)
       /\ e.raw.kind = "Ok" =>
            \A i \in Fields(e.st) : TypOf(e.st, i) = "Skip" => e.raw.v.fields[i] = DefaultValue
       /\ e.raw.kind = ExpectedKind(e.st, e.pre)

\* a structure is constructed with the default in a Skip field although the
\* row holds a value under the name of that field
C9_Witness ==
  \E k \in Calls :
    LET e == returns[k] IN
    /\ e.raw.kind = "Ok"
    /\ \E i \in Fields(e.st) :
         /\ TypOf(e.st, i) = "Skip"
         /\ CellOf(e.pre \o Unraw(Decls[e.st][i].ident)) = "val"
         /\ e.raw.v.fields[i] = DefaultValue

\* the Direct fields of a structure and of its nested structures, in
\* declaration order
RECURSIVE FlatList(_, _, _), FlatListFrom(_, _, _, _)
FlatListFrom(st, pre, path, i) ==
  IF i > Len(Decls[st]) THEN <<>>
  ELSE (CASE TypOf(st, i) = "Flat" ->
               << [path |-> Append(path, i), st |-> st, pre |-> pre,
                   col |-> FlatColumn(st, pre, i)] >>
          [] TypOf(st, i) = "Nested" ->
               FlatList(Decls[st][i].ty.inner, NestedPrefix(pre, New(st)[i]), Append(path, i))
          [] OTHER -> <<>>)
       \o FlatListFrom(st, pre, path, i + 1)
FlatList(st, pre, path) == FlatListFrom(st, pre, path, 1)

FailingPositions(list) == {n \in 1..Len(list) : CellOf(list[n].col) = "err"}
FirstFailing(list) == CHOOSE n \in FailingPositions(list) : \A m \in FailingPositions(list) : n <= m
\* the lookups up to and including the first one that fails to decode
ExpectedLog(list) ==
  IF FailingPositions(list) = {} THEN list ELSE SubSeq(list, 1, FirstFailing(list))

\* C10: fields are looked up in declaration order, no field is looked up
\* after one that yields DbErr, and the DbErr returned is the one of the
\* first failing field in declaration order.
C10_ShortCircuitInDeclarationOrder ==
  pc # "idle" =>
    LET list == FlatList(top, prefix, <<>>) IN
    /\ IsPrefix(log, ExpectedLog(list))
    /\ pc \in {"strict", "done"} =>
         /\ log = ExpectedLog(list)
         /\ FailingPositions(list) # {} =>
              nullableResult = DbErr([src |-> "decode", col |-> list[FirstFailing(list)].col])

\* two fields fail to decode and a field declared after the first of them is
\* never looked up
C10_Witness ==
  /\ Finished
  /\ LET list == FlatList(top, prefix, <<>>) IN
     /\ Cardinality(FailingPositions(list)) >= 2
     /\ Len(log) < Len(list)
     /\ Len(log) >= 2
     /\ nullableResult.kind = "DbErr"

====
